---- MODULE Spec2Model ----
(***************************************************************************)
(* One run of plot_power_data (example/logger/csv_2_plot.py): load the CSV  *)
(* log, convert its timestamps to the local timezone, draw one panel per    *)
(* requested measurement type, format the time axis, title the figure and   *)
(* save the image.                                                          *)
(*                                                                          *)
(* Readings and ladder steps are in tenths of the unit (2.5 A is 25), so    *)
(* that every step of the source's ladders is an integer.                   *)
(***************************************************************************)
EXTENDS Integers, Sequences, FiniteSets, TLC

VARIABLES
    plot_types,   \* argument: requested measurement types, in caller order
    sources,      \* argument: requested sources, in caller order
    csv,          \* what is stored at csv_path
    sysTz,        \* the system's local timezone setting (read by gettz())
    pc,           \* position of the run in plot_power_data
    df,           \* the loaded DataFrame
    local_tz,     \* the local variable local_tz (lines 29 and 102)
    fig,          \* the figure and its axes
    i,            \* index of the panel loop (line 73), 1-based
    out,          \* the messages printed so far
    openFigures,  \* figures registered with pyplot and not closed
    written,      \* number of times the image was written to output_path
    err           \* the exception that ended the run, "none" otherwise

vars == <<plot_types, sources, csv, sysTz, pc, df, local_tz, fig, i, out,
          openFigures, written, err>>

-----------------------------------------------------------------------------
(* Bounds of the model *)

MaxTypes == 2       \* longest list of requested measurement types
MaxSources == 2     \* longest list of requested sources
MaxRows == 2        \* most rows of a log

-----------------------------------------------------------------------------
(* The fixed enumerations of the program *)

Types == {"power", "voltage", "current"}        \* argparse choices, line 133
Sources == {"vin", "main", "usb"}               \* argparse choices, line 141
Timezones == {"UTC", "KST"}                     \* what gettz() may resolve to

\* scale_config, lines 44-48, in tenths
scale_config ==
    [power   |-> [steps |-> <<50, 200, 500, 1600>>],
     voltage |-> [steps |-> <<50, 100, 150, 250>>],
     current |-> [steps |-> <<10, 25, 50, 100>>]]

\* f'{s}_{type}', lines 52, 54, 56
ColName(s, t) == s \o "_" \o t

\* plot_configs, lines 50-57
plot_configs(srcs) ==
    [power   |-> [title |-> "Power Consumption", ylabel |-> "Power (W)",
                  cols |-> [j \in 1..Len(srcs) |-> ColName(srcs[j], "power")]],
     voltage |-> [title |-> "Voltage", ylabel |-> "Voltage (V)",
                  cols |-> [j \in 1..Len(srcs) |-> ColName(srcs[j], "voltage")]],
     current |-> [title |-> "Current", ylabel |-> "Current (A)",
                  cols |-> [j \in 1..Len(srcs) |-> ColName(srcs[j], "current")]]]

\* str.upper on the three source names, line 58
upper(s) ==
    CASE s = "vin" -> "VIN"
      [] s = "main" -> "MAIN"
      [] s = "usb" -> "USB"

\* channel_labels, line 58
channel_labels(srcs) == [j \in 1..Len(srcs) |-> upper(srcs[j])]

\* color_map, line 60
color_map == [vin |-> "red", main |-> "green", usb |-> "blue"]

\* Mutant of channel_colors: the colors in the fixed order of the color map,
\* whatever the order of the request
channel_colors_fixed(srcs) ==
    [j \in 1..Len(srcs) |-> <<"red", "green", "blue">>[j]]

\* channel_colors, line 61
channel_colors(srcs) == [j \in 1..Len(srcs) |-> color_map[srcs[j]]]

-----------------------------------------------------------------------------
(* Inputs *)

Range(s) == {s[k] : k \in 1..Len(s)}

SeqsUpTo(S, n) == UNION {[1..k -> S] : k \in 0..n}

\* A timestamp cell parses to an instant carrying the UTC marker, or is empty
\* and parses to NaT.
Instant == "instant"
NaT == "NaT"

\* The columns a run can look up: lines 78-79 read df.columns and df[col_name]
\* for the names of config['cols'] only, so a log is represented by these.
RequestedCols(types, srcs) ==
    {ColName(s, t) : s \in Range(srcs), t \in Range(types)}

\* A log is represented by its timestamp column and, for every channel column
\* it holds, the max() of the column (all that line 82 reads of the data):
\* <<v>> for the largest reading v, <<>> (NaN) for a column without readings.
Table(ts, d) == [kind |-> "table", timestamp |-> ts, data |-> d]

\* Largest reading, in tenths, the logs of the pipeline specification give
\* the columns of a source
SourceLevel == [vin |-> 48, main |-> 120, usb |-> 1700]

\* The columns of the recorded sources rec, each with its source's level
RecordedData(rec, types, ts) ==
    [c \in {ColName(s, t) : s \in rec, t \in Range(types)} |->
        IF ts = <<>> THEN <<>>
        ELSE <<SourceLevel[CHOOSE s \in rec :
                              \E t \in Range(types) : c = ColName(s, t)]>>]

\* Logs of the pipeline specification: every timestamp column of at most
\* MaxRows cells, and every set of recorded sources (older logs lack sources)
PipelineLogs(types, srcs) ==
    {Table(ts, RecordedData(rec, types, ts)) :
        ts \in SeqsUpTo({Instant, NaT}, MaxRows), rec \in SUBSET Range(srcs)}

\* Readings around every step of a type's ladder, and a negative one
ScaleReadings(t) ==
    {-20} \cup {scale_config[t].steps[k] : k \in 1..Len(scale_config[t].steps)}
          \cup {scale_config[t].steps[k] + 1 : k \in 1..Len(scale_config[t].steps)}

\* Logs of the panel specification: one row, every subset of the requested
\* columns, every column with any of the readings of its type or with none
PanelLogs(types, srcs) ==
    {Table(<<Instant>>, d) :
        d \in UNION {[P -> {<<>>} \cup {<<v>> : v \in UNION {ScaleReadings(t) :
                                                     t \in Range(types)}}] :
                        P \in SUBSET RequestedCols(types, srcs)}}

NoFile == [kind |-> "missing", timestamp |-> <<>>, data |-> <<>>]
Malformed == [kind |-> "malformed", timestamp |-> <<>>, data |-> <<>>]

NoTable == [loaded |-> FALSE, timestamp |-> <<>>, tz |-> "UTC", data |-> <<>>]
NoFigure == [created |-> FALSE, axes |-> <<>>, xlabel |-> "none",
             rotation |-> 0, suptitle |-> "none", tight |-> FALSE]

\* The state on entry of plot_power_data
Start ==
    /\ sysTz = "UTC"
    /\ pc = "load"
    /\ df = NoTable
    /\ local_tz = "unset"
    /\ fig = NoFigure
    /\ i = 1
    /\ out = <<>>
    /\ openFigures = 0
    /\ written = 0
    /\ err = "none"

\* Pipeline specification: every request of at most MaxTypes types and
\* MaxSources sources over the pipeline logs
Init ==
    /\ plot_types \in SeqsUpTo(Types, MaxTypes)
    /\ sources \in SeqsUpTo(Sources, MaxSources)
    /\ csv \in {NoFile, Malformed} \cup PipelineLogs(plot_types, sources)
    /\ Start

\* Panel specification: requests of at most one type, over the panel logs too
PanelInit ==
    /\ plot_types \in {<<>>} \cup {<<t>> : t \in Types}
    /\ sources \in SeqsUpTo(Sources, MaxSources)
    /\ csv \in {NoFile, Malformed} \cup PipelineLogs(plot_types, sources)
                                   \cup PanelLogs(plot_types, sources)
    /\ Start

-----------------------------------------------------------------------------
(* Messages *)

Msg(kind, arg) == [kind |-> kind, arg |-> arg]

-----------------------------------------------------------------------------
(* Loading, lines 20-40 *)

\* pd.read_csv raises FileNotFoundError, line 24; handler lines 35-37
LoadNotFound ==
    /\ pc = "load"
    /\ csv.kind = "missing"
    /\ out' = Append(out, Msg("notFound", "csv_path"))
    /\ pc' = "done"
    /\ UNCHANGED <<plot_types, sources, csv, sysTz, df, local_tz, fig, i,
                   openFigures, written, err>>

\* Mutant of LoadParseError: the handler prints and does not return
LoadParseError_continue ==
    /\ pc = "load"
    /\ csv.kind = "malformed"
    /\ out' = Append(out, Msg("readError", "csv_path"))
    /\ pc' = "configure"
    /\ UNCHANGED <<plot_types, sources, csv, sysTz, df, local_tz, fig, i,
                   openFigures, written, err>>

\* pd.read_csv raises another exception, line 24; handler lines 38-40
LoadParseError ==
    /\ pc = "load"
    /\ csv.kind = "malformed"
    /\ out' = Append(out, Msg("readError", "csv_path"))
    /\ pc' = "done"
    /\ UNCHANGED <<plot_types, sources, csv, sysTz, df, local_tz, fig, i,
                   openFigures, written, err>>

\* The timestamp column is timezone-aware when some cell parsed to an instant
\* with the UTC marker; a column of empty cells, and the column of a log
\* without rows, carries no timezone, and line 32 raises on it.
TzAware(ts) == \E k \in 1..Len(ts) : ts[k] = Instant

\* read_csv succeeds (lines 24-25), tz_convert raises (line 32); handler 38-40
LoadConvertError ==
    /\ pc = "load"
    /\ csv.kind = "table"
    /\ ~TzAware(csv.timestamp)
    /\ local_tz' = sysTz
    /\ out' = out \o <<Msg("loaded", Len(csv.timestamp)),
                       Msg("readError", "csv_path")>>
    /\ pc' = "done"
    /\ UNCHANGED <<plot_types, sources, csv, sysTz, df, fig, i,
                   openFigures, written, err>>

\* lines 24-33 without an exception
LoadOk ==
    /\ pc = "load"
    /\ csv.kind = "table"
    /\ TzAware(csv.timestamp)
    /\ local_tz' = sysTz
    /\ df' = [loaded |-> TRUE, timestamp |-> csv.timestamp, tz |-> sysTz,
              data |-> csv.data]
    /\ out' = out \o <<Msg("loaded", Len(csv.timestamp)),
                       Msg("tzConverted", sysTz)>>
    /\ pc' = "configure"
    /\ UNCHANGED <<plot_types, sources, csv, sysTz, fig, i,
                   openFigures, written, err>>

-----------------------------------------------------------------------------
(* Configuration and the empty selection, lines 42-66 *)

\* Mutant of NoPlotTypes: returns without the message
NoPlotTypes_silent ==
    /\ pc = "configure"
    /\ Len(plot_types) = 0
    /\ pc' = "done"
    /\ UNCHANGED <<plot_types, sources, csv, sysTz, df, local_tz, fig, i, out,
                   openFigures, written, err>>

\* lines 63-66: num_plots == 0
NoPlotTypes ==
    /\ pc = "configure"
    /\ Len(plot_types) = 0
    /\ out' = Append(out, Msg("noTypes", "none"))
    /\ pc' = "done"
    /\ UNCHANGED <<plot_types, sources, csv, sysTz, df, local_tz, fig, i,
                   openFigures, written, err>>

\* An axes as plt.subplots creates it
BlankAxes ==
    [drawn |-> FALSE, lines |-> <<>>, ybottom |-> <<>>,
     ytop |-> <<>>, title |-> "", ylabel |-> "", legend |-> FALSE,
     grid |-> FALSE, formatter |-> "default", locator |-> "default"]

\* lines 68-70: plt.subplots(num_plots, 1, ...), axes.flatten()
CreateFigure ==
    /\ pc = "configure"
    /\ Len(plot_types) # 0
    /\ fig' = [NoFigure EXCEPT !.created = TRUE,
                               !.axes = [k \in 1..Len(plot_types) |-> BlankAxes]]
    /\ openFigures' = openFigures + 1
    /\ i' = 1
    /\ pc' = "panels"
    /\ UNCHANGED <<plot_types, sources, csv, sysTz, df, local_tz, out,
                   written, err>>

-----------------------------------------------------------------------------
(* One panel, lines 73-99 *)

\* df[col_name].max(), line 82: <<>> is NaN
ColMax(d, col) == d.data[col]

\* max_col_value > max_data_value, line 83: False when the left side is NaN
Greater(v, m) == v # <<>> /\ v[1] > m

\* Mutant of PlotCols: an absent column ends the loop after its warning
RECURSIVE PlotCols_break(_, _, _, _)
PlotCols_break(d, srcs, cols, acc) ==
    LET j == acc.j IN
    IF j > Len(cols) THEN acc
    ELSE IF cols[j] \in DOMAIN d.data
         THEN PlotCols_break(d, srcs, cols,
                [j |-> j + 1,
                 lines |-> Append(acc.lines,
                              [x |-> "timestamp", y |-> cols[j],
                               label |-> channel_labels(srcs)[j],
                               color |-> channel_colors(srcs)[j]]),
                 max_data_value |->
                     IF Greater(ColMax(d, cols[j]), acc.max_data_value)
                     THEN ColMax(d, cols[j])[1] ELSE acc.max_data_value,
                 warnings |-> acc.warnings])
         ELSE [acc EXCEPT !.j = j + 1,
                          !.warnings = Append(@, Msg("warnMissing", cols[j]))]

\* The loop over config['cols'], lines 78-86, from index acc.j on: the lines
\* drawn, max_data_value and the warnings printed
RECURSIVE PlotCols(_, _, _, _)
PlotCols(d, srcs, cols, acc) ==
    LET j == acc.j IN
    IF j > Len(cols) THEN acc
    ELSE IF cols[j] \in DOMAIN d.data
         THEN PlotCols(d, srcs, cols,
                [j |-> j + 1,
                 lines |-> Append(acc.lines,
                              [x |-> "timestamp", y |-> cols[j],
                               label |-> channel_labels(srcs)[j],
                               color |-> channel_colors(srcs)[j]]),
                 max_data_value |->
                     IF Greater(ColMax(d, cols[j]), acc.max_data_value)
                     THEN ColMax(d, cols[j])[1] ELSE acc.max_data_value,
                 warnings |-> acc.warnings])
         ELSE PlotCols(d, srcs, cols,
                [acc EXCEPT !.j = j + 1,
                            !.warnings = Append(@, Msg("warnMissing", cols[j]))])

\* Mutant of new_max: the first step strictly above max_data_value
new_max_strict(steps, max_data_value) ==
    LET fits == {k \in 1..Len(steps) : steps[k] > max_data_value} IN
    IF fits = {} THEN steps[Len(steps)]
    ELSE steps[CHOOSE k \in fits : \A m \in fits : k <= m]

\* next((step for step in steps if step >= max_data_value), steps[-1]), line 93
new_max(steps, max_data_value) ==
    LET fits == {k \in 1..Len(steps) : steps[k] >= max_data_value} IN
    IF fits = {} THEN steps[Len(steps)]
    ELSE steps[CHOOSE k \in fits : \A m \in fits : k <= m]

\* The body of the loop of line 73 for a panel of type t: the axes as the
\* body leaves it, and the warnings it prints
PanelOf(d, srcs, t) ==
    LET config == plot_configs(srcs)[t]
        r == PlotCols(d, srcs, config.cols,
                      [j |-> 1, lines |-> <<>>, max_data_value |-> 0,
                       warnings |-> <<>>])
    IN [axes |-> [BlankAxes EXCEPT
                    !.drawn = TRUE,
                    !.lines = r.lines,
                    !.ybottom = <<0>>,
                    !.ytop = IF t \in DOMAIN scale_config
                             THEN <<new_max(scale_config[t].steps,
                                            r.max_data_value)>>
                             ELSE <<>>,
                    !.title = config.title,
                    !.ylabel = config.ylabel,
                    !.legend = TRUE,
                    !.grid = TRUE],
        warnings |-> r.warnings]

DrawPanel ==
    /\ pc = "panels"
    /\ i <= Len(plot_types)
    /\ LET p == PanelOf(df, sources, plot_types[i]) IN
        /\ fig' = [fig EXCEPT !.axes[i] = p.axes]
        /\ out' = out \o p.warnings
    /\ i' = i + 1
    /\ pc' = IF i = Len(plot_types) THEN "xaxis" ELSE "panels"
    /\ UNCHANGED <<plot_types, sources, csv, sysTz, df, local_tz,
                   openFigures, written, err>>

-----------------------------------------------------------------------------
(* The time axis, lines 101-108 *)

\* Mutant of WithTimeAxis: the formatter and the locator of axes[0]
WithTimeAxis_first(f, tz) ==
    [f EXCEPT !.axes[1].formatter = tz,
              !.axes[1].locator = "MaxNLocator(15)"]

\* lines 102-106: the formatter and the locator of axes[-1]
WithTimeAxis(f, tz) ==
    [f EXCEPT !.axes[Len(f.axes)].formatter = tz,
              !.axes[Len(f.axes)].locator = "MaxNLocator(15)"]

\* local_tz.tzname(NaT), line 107, after lines 102-106: a timezone object that
\* computes with the instant raises ValueError on NaT, one that does not
\* returns its name, so both outcomes are allowed when the last cell is NaT
FormatXAxisNaT ==
    /\ pc = "xaxis"
    /\ df.timestamp[Len(df.timestamp)] = NaT
    /\ local_tz' = sysTz
    /\ fig' = WithTimeAxis(fig, sysTz)
    /\ pc' = "crashed"
    /\ err' = "ValueError"
    /\ UNCHANGED <<plot_types, sources, csv, sysTz, df, i, out,
                   openFigures, written>>

\* lines 102-108
FormatXAxis ==
    /\ pc = "xaxis"
    /\ local_tz' = sysTz
    /\ fig' = [WithTimeAxis(fig, sysTz) EXCEPT !.xlabel = sysTz,
                                                !.rotation = 45]
    /\ pc' = "title"
    /\ UNCHANGED <<plot_types, sources, csv, sysTz, df, i, out,
                   openFigures, written, err>>

-----------------------------------------------------------------------------
(* The figure title and the layout, lines 110-116 *)

\* iloc[0].strftime / iloc[-1].strftime, lines 111-112: NaT.strftime raises
\* ValueError
SetTitleNaT ==
    /\ pc = "title"
    /\ (df.timestamp[1] = NaT \/ df.timestamp[Len(df.timestamp)] = NaT)
    /\ pc' = "crashed"
    /\ err' = "ValueError"
    /\ UNCHANGED <<plot_types, sources, csv, sysTz, df, local_tz, fig, i, out,
                   openFigures, written>>

\* lines 111-113
SetTitle ==
    /\ pc = "title"
    /\ df.timestamp[1] # NaT
    /\ df.timestamp[Len(df.timestamp)] # NaT
    /\ fig' = [fig EXCEPT !.suptitle = "ODROID Power Log"]
    /\ pc' = "layout"
    /\ UNCHANGED <<plot_types, sources, csv, sysTz, df, local_tz, i, out,
                   openFigures, written, err>>

\* line 116
TightLayout ==
    /\ pc = "layout"
    /\ fig' = [fig EXCEPT !.tight = TRUE]
    /\ pc' = "save"
    /\ UNCHANGED <<plot_types, sources, csv, sysTz, df, local_tz, i, out,
                   openFigures, written, err>>

-----------------------------------------------------------------------------
(* Saving, lines 118-123 *)

\* Mutant of SaveOk: the image is written before the figure title is set
SaveOk_early ==
    /\ pc = "title"
    /\ written' = written + 1
    /\ out' = Append(out, Msg("saved", "output_path"))
    /\ pc' = "done"
    /\ UNCHANGED <<plot_types, sources, csv, sysTz, df, local_tz, fig, i,
                   openFigures, err>>

\* lines 120-121: savefig writes the image
SaveOk ==
    /\ pc = "save"
    /\ written' = written + 1
    /\ out' = Append(out, Msg("saved", "output_path"))
    /\ pc' = "done"
    /\ UNCHANGED <<plot_types, sources, csv, sysTz, df, local_tz, fig, i,
                   openFigures, err>>

\* line 120 raises (the path cannot be written); handler lines 122-123
SaveFail ==
    /\ pc = "save"
    /\ out' = Append(out, Msg("saveError", "output_path"))
    /\ pc' = "done"
    /\ UNCHANGED <<plot_types, sources, csv, sysTz, df, local_tz, fig, i,
                   openFigures, written, err>>

-----------------------------------------------------------------------------
(* The environment: the system's timezone setting changes between the two    *)
(* calls of gettz() (lines 29 and 102).  The run reads the setting at these   *)
(* two lines only, so a change at any point in between is the same as one     *)
(* right before line 102, where the model takes it.                           *)

TzChange ==
    /\ pc = "xaxis"
    /\ sysTz' \in Timezones \ {sysTz}
    /\ UNCHANGED <<plot_types, sources, csv, pc, df, local_tz, fig, i, out,
                   openFigures, written, err>>

-----------------------------------------------------------------------------

Next ==
    \/ LoadNotFound
    \/ LoadParseError
    \/ LoadConvertError
    \/ LoadOk
    \/ NoPlotTypes
    \/ CreateFigure
    \/ DrawPanel
    \/ FormatXAxisNaT
    \/ FormatXAxis
    \/ SetTitleNaT
    \/ SetTitle
    \/ TightLayout
    \/ SaveOk
    \/ SaveFail
    \/ TzChange

Spec == Init /\ [][Next]_vars

PanelSpec == PanelInit /\ [][Next]_vars

-----------------------------------------------------------------------------
(* What the run has produced, read off the state *)

DrawnPanels == {k \in 1..Len(fig.axes) : fig.axes[k].drawn}

\* The label and the color of every source, as the claims state them
SourceLabel == [vin |-> "VIN", main |-> "MAIN", usb |-> "USB"]
SourceColor == [vin |-> "red", main |-> "green", usb |-> "blue"]

SetMax(S) == CHOOSE v \in S : \A w \in S : w <= v

\* The largest reading of the series drawn in a panel, 0 when no reading is
\* drawn
DrawnMax(panel) ==
    LET vals == UNION {Range(df.data[panel.lines[n].y]) :
                          n \in 1..Len(panel.lines)} IN
    IF vals = {} THEN 0 ELSE SetMax(vals)

\* The sources of the request whose column of type t the table holds, in
\* caller order
PresentSources(t) ==
    SelectSeq(sources, LAMBDA s : ColName(s, t) \in DOMAIN df.data)
AbsentSources(t) ==
    SelectSeq(sources, LAMBDA s : ColName(s, t) \notin DOMAIN df.data)

-----------------------------------------------------------------------------
\* C1: in every drawn panel the y-axis upper bound is s1 when the largest
\* drawn reading m is at most s1, sn when m exceeds sn, and otherwise the step
\* si with s(i-1) < m <= si, for the ladder s1 < ... < sn of the panel's type.
C1_AxisScaling ==
    \A k \in DrawnPanels :
        LET panel == fig.axes[k]
            steps == scale_config[plot_types[k]].steps
            n == Len(steps)
            m == DrawnMax(panel)
        IN /\ \A q \in 2..n : steps[q - 1] < steps[q]
           /\ Len(panel.ytop) = 1
           /\ m <= steps[1] => panel.ytop[1] = steps[1]
           /\ m > steps[n] => panel.ytop[1] = steps[n]
           /\ \A q \in 2..n :
                 (steps[q - 1] < m /\ m <= steps[q]) => panel.ytop[1] = steps[q]

\* A power panel of two series whose first holds the larger reading, strictly
\* inside the ladder: the bound is the step above it.
C1_Witness ==
    /\ 1 \in DrawnPanels
    /\ plot_types[1] = "power"
    /\ Len(fig.axes[1].lines) = 2
    /\ df.data[fig.axes[1].lines[1].y] = <<201>>
    /\ df.data[fig.axes[1].lines[2].y] = <<51>>
    /\ fig.axes[1].ytop = <<500>>

-----------------------------------------------------------------------------
\* C2: in every drawn panel the lines are the requested sources in caller
\* order without those whose column is absent, and the line of source s reads
\* column s_type and carries the label upper(s) and the fixed color of s.
C2_SeriesSelection ==
    \A k \in DrawnPanels :
        LET t == plot_types[k]
            want == PresentSources(t)
        IN fig.axes[k].lines =
              [n \in 1..Len(want) |->
                  [x |-> "timestamp", y |-> ColName(want[n], t),
                   label |-> SourceLabel[want[n]],
                   color |-> SourceColor[want[n]]]]

\* A request [usb, vin] whose usb column is absent: the one line is VIN's, red.
C2_Witness ==
    /\ sources = <<"usb", "vin">>
    /\ 1 \in DrawnPanels
    /\ plot_types[1] = "voltage"
    /\ "usb_voltage" \notin DOMAIN df.data
    /\ fig.axes[1].lines = <<[x |-> "timestamp", y |-> "vin_voltage",
                              label |-> "VIN", color |-> "red"]>>

-----------------------------------------------------------------------------
\* C3: an absent column gives one warning per lookup and no line, the panel
\* holds the remaining channels, a panel without any channel has no lines and
\* the smallest step as upper bound; no panel ends the run, and a run that
\* drew its panels ends at the save unless its timestamps stop it.
RECURSIVE C3_ExpectedWarnings(_)
C3_ExpectedWarnings(k) ==
    IF k = 0 THEN <<>>
    ELSE LET gone == AbsentSources(plot_types[k]) IN
         C3_ExpectedWarnings(k - 1) \o
         [n \in 1..Len(gone) |-> Msg("warnMissing", ColName(gone[n], plot_types[k]))]

C3_SoundTimestamps ==
    /\ df.timestamp[1] = Instant
    /\ df.timestamp[Len(df.timestamp)] = Instant

C3_MissingColumns ==
    /\ SelectSeq(out, LAMBDA m : m.kind = "warnMissing")
          = C3_ExpectedWarnings(Cardinality(DrawnPanels))
    /\ \A k \in DrawnPanels :
          LET t == plot_types[k]
              panel == fig.axes[k]
              present == PresentSources(t)
          IN /\ [n \in 1..Len(panel.lines) |-> panel.lines[n].y]
                   = [n \in 1..Len(present) |-> ColName(present[n], t)]
             /\ Len(present) = 0 =>
                   /\ panel.lines = <<>>
                   /\ panel.ytop = <<scale_config[t].steps[1]>>
                   /\ t = "power" => panel.ytop = <<50>>
    /\ pc = "panels" => err = "none"
    /\ (pc = "crashed" /\ C3_SoundTimestamps) => FALSE
    /\ (pc = "done" /\ fig.created) =>
          /\ DrawnPanels = 1..Len(plot_types)
          /\ out[Len(out)].kind \in {"saved", "saveError"}

\* A power panel whose only requested channel is absent, in a run that wrote
\* the image: one warning, no line, upper bound 5 W.
C3_Witness ==
    /\ pc = "done"
    /\ written = 1
    /\ plot_types = <<"power">>
    /\ sources = <<"main">>
    /\ fig.axes[1].lines = <<>>
    /\ fig.axes[1].ytop = <<50>>
    /\ SelectSeq(out, LAMBDA m : m.kind = "warnMissing")
          = <<Msg("warnMissing", "main_power")>>
-----------------------------------------------------------------------------
(* Diagnostics and outcomes *)

Kinds(ks) == SelectSeq(out, LAMBDA m : m.kind \in ks)
LoadDiagnostics == {"notFound", "readError"}
Diagnostics == {"notFound", "readError", "noTypes", "warnMissing", "saveError"}
Outcomes == {"notFound", "readError", "noTypes", "saved", "saveError"}
Ended == pc \in {"done", "crashed"}

-----------------------------------------------------------------------------
\* C4, as stated: every run with an empty list of measurement types writes no
\* file, emits the "No plot types selected" diagnostic and does not crash,
\* whatever the input path is.
C4_AsStated ==
    (Len(plot_types) = 0 /\ Ended) =>
        /\ pc = "done"
        /\ written = 0
        /\ Len(Kinds({"noTypes"})) = 1

\* C4, amended: a run with an empty list of measurement types writes no file,
\* creates no figure and does not crash; it emits the "No plot types selected"
\* diagnostic, as its last message, exactly when the table loaded, and ends
\* with the load diagnostic alone when the load failed.
C4_EmptySelection ==
    Len(plot_types) = 0 =>
        /\ written = 0
        /\ ~fig.created
        /\ pc \in {"load", "configure", "done"}
        /\ pc = "done" =>
              IF df.loaded
              THEN /\ Kinds(Diagnostics) = <<Msg("noTypes", "none")>>
                   /\ out[Len(out)].kind = "noTypes"
              ELSE /\ Len(Kinds({"noTypes"})) = 0
                   /\ Len(Kinds(LoadDiagnostics)) = 1
                   /\ out[Len(out)].kind \in LoadDiagnostics

\* An empty list of types over a log that loaded: the diagnostic, no file.
C4_Witness ==
    /\ plot_types = <<>>
    /\ sources = <<"usb", "vin">>
    /\ df.loaded
    /\ Len(df.timestamp) = 2
    /\ pc = "done"
    /\ out[Len(out)].kind = "noTypes"
    /\ written = 0

-----------------------------------------------------------------------------
\* C5: a run whose load failed (missing file, unparsable table, timestamps
\* that cannot be converted) has emitted exactly one diagnostic, the
\* file-not-found message for a missing file and the read-error message
\* otherwise, as its last message, and has ended without figure, panel or
\* output file; a missing or unparsable file never loads.
C5_LoadFailed == pc # "load" /\ ~df.loaded

C5_LoadFailureTerminal ==
    /\ C5_LoadFailed =>
          /\ pc = "done"
          /\ Kinds(Diagnostics) =
                <<Msg(IF csv.kind = "missing" THEN "notFound" ELSE "readError",
                      "csv_path")>>
          /\ out[Len(out)].kind \in LoadDiagnostics
          /\ ~fig.created
          /\ fig.axes = <<>>
          /\ openFigures = 0
          /\ written = 0
    /\ df.loaded =>
          /\ csv.kind = "table"
          /\ TzAware(csv.timestamp)
          /\ Len(Kinds(LoadDiagnostics)) = 0

\* A log whose timestamps cannot be converted: the record count is printed,
\* then the read error, and the run is over.
C5_Witness ==
    /\ csv.kind = "table"
    /\ csv.timestamp = <<NaT, NaT>>
    /\ Len(plot_types) = 2
    /\ pc = "done"
    /\ out = <<Msg("loaded", 2), Msg("readError", "csv_path")>>

-----------------------------------------------------------------------------
\* C6: the image is written at most once, and only when the table is loaded,
\* every requested panel is drawn and scaled, the time axis is formatted, the
\* figure title is set and the layout adjusted; once it is written the figure
\* does not change, and a run that stopped earlier has written nothing.
C6_Composed ==
    /\ df.loaded
    /\ fig.created
    /\ DrawnPanels = 1..Len(plot_types)
    /\ \A k \in DrawnPanels :
          Len(fig.axes[k].ytop) = 1 /\ fig.axes[k].ybottom = <<0>>
    /\ fig.axes[Len(fig.axes)].formatter # "default"
    /\ fig.axes[Len(fig.axes)].locator # "default"
    /\ fig.xlabel # "none"
    /\ fig.suptitle # "none"
    /\ fig.tight

C6_WriteOrdering ==
    /\ [](/\ written <= 1
          /\ written = 1 => C6_Composed /\ pc = "done"
          /\ (pc = "crashed" \/ ~C6_Composed) => written = 0)
    /\ [][written >= 1 => (fig' = fig /\ written' = written)]_vars

\* A run of two panels that wrote its image.
C6_Witness ==
    /\ written = 1
    /\ Len(plot_types) = 2
    /\ out[Len(out)].kind = "saved"

-----------------------------------------------------------------------------
\* C7: once the time axis is formatted, the timezone of the tick formatter and
\* of the axis title is the timezone the timestamps were converted to at load
\* time, also when the system's timezone setting changed in between.
C7_SameTimezone ==
    (fig.created /\ fig.axes[Len(fig.axes)].formatter # "default") =>
        /\ fig.axes[Len(fig.axes)].formatter = df.tz
        /\ fig.xlabel # "none" => fig.xlabel = df.tz

-----------------------------------------------------------------------------
\* C8: when the function has returned, every figure it created is released.
C8_FigureReleased == pc = "done" => openFigures = 0

-----------------------------------------------------------------------------
\* C9: for a non-empty list of types the figure has one panel per entry of
\* the list; a drawn panel has the title, the y-label and a bound of the
\* ladder of its entry and the lower bound 0; the time formatter and the tick
\* locator are set on the last panel only, from the time-axis step on.
C9_PanelLayout ==
    /\ (df.loaded /\ pc \notin {"load", "configure"} /\ Len(plot_types) > 0) =>
          fig.created
    /\ fig.created => Len(plot_types) > 0 /\ Len(fig.axes) = Len(plot_types)
    /\ \A k \in DrawnPanels :
          LET t == plot_types[k]
              panel == fig.axes[k]
          IN /\ panel.title = plot_configs(sources)[t].title
             /\ panel.ylabel = plot_configs(sources)[t].ylabel
             /\ t = "power" => panel.title = "Power Consumption"
             /\ Len(panel.ytop) = 1
             /\ \E q \in 1..Len(scale_config[t].steps) :
                   panel.ytop[1] = scale_config[t].steps[q]
             /\ panel.ybottom = <<0>>
    /\ \A k \in 1..(Len(fig.axes) - 1) :
          fig.axes[k].formatter = "default" /\ fig.axes[k].locator = "default"
    /\ (fig.created /\ pc \in {"title", "layout", "save", "done"}) =>
          /\ DrawnPanels = 1..Len(plot_types)
          /\ fig.axes[Len(fig.axes)].formatter \in Timezones
          /\ fig.axes[Len(fig.axes)].locator = "MaxNLocator(15)"

\* The same type requested twice: two panels with its title, the time axis
\* formatted on the second.
C9_Witness ==
    /\ plot_types = <<"current", "current">>
    /\ pc = "save"
    /\ fig.axes[1].title = "Current"
    /\ fig.axes[2].title = "Current"
    /\ fig.axes[1].formatter = "default"
    /\ fig.axes[2].formatter \in Timezones
    /\ Len(fig.axes[2].lines) = 2

-----------------------------------------------------------------------------
\* C10: every run that has ended has ended in exactly one of the four
\* outcomes (load failure, empty selection, image saved, save failure), with
\* that outcome's message as its last, and not in an unhandled error.
C10_FourOutcomes ==
    Ended =>
        /\ pc = "done"
        /\ err = "none"
        /\ Len(Kinds(Outcomes)) = 1
        /\ out[Len(out)].kind \in Outcomes
====
